---- MODULE Spec2Model ----
(***************************************************************************)
(* A model of make_demo.py: the tag loader tags(), the per-family quality  *)
(* classification (quality_tags_for, min_quality_for, quality_for) and the *)
(* ranking and report loop of main().                                      *)
(*                                                                         *)
(* Weights are Python floats in the program; the model uses integers for   *)
(* the finite values they take (NaN is outside the model).  A CSV row is   *)
(* the sequence of its string fields, as csv.reader yields it.             *)
(***************************************************************************)
EXTENDS Integers, Sequences, FiniteSets, TLC

VARIABLES fs, pc, pending, rows, acc, tagsCache, err, runs, opened, returned,
          minCalls, qualityCache, families, idx, current_group,
          current_quality, count_by_quality, out

loadVars == <<fs, pending, rows, acc, runs, opened, returned>>
mainVars == <<minCalls, qualityCache, families, idx, current_group,
              current_quality, count_by_quality, out>>
vars == <<fs, pc, pending, rows, acc, tagsCache, err, runs, opened, returned,
          minCalls, qualityCache, families, idx, current_group,
          current_quality, count_by_quality, out>>

(* ---------------------------------------------------------------------- *)
(* Bounds of the model                                                     *)
(* ---------------------------------------------------------------------- *)
MaxTags == 3
MaxTotalRows == 3
MaxRuns == 2

(* ---------------------------------------------------------------------- *)
(* class Quality(enum.Enum)                                                *)
(* ---------------------------------------------------------------------- *)
UNKNOWN == 0
LOW == 1
MEDIUM == 2
HIGH == 3
Quality == {UNKNOWN, LOW, MEDIUM, HIGH}

\* The location of a Tag built from a three-field row (Python's None).
None == "None"

\* current_group = None before the first family of the report loop.
NoGroup == -1

Tag(family, location, name, weight) ==
    [family |-> family, location |-> location, name |-> name, weight |-> weight]

\* name.startswith("/Quality/"), over the tag names of the model.
IsQualityName(name) == name \in {"/Quality/Wordspace", "/Quality/Drawing"}

\* A functools.cache slot of a function without arguments.
NoValue == [hit |-> FALSE, value |-> {}]
Cached(v) == [hit |-> TRUE, value |-> v]

NoErr == [type |-> "none", msg |-> "", arg |-> <<>>]
EmptyMinError ==
    [type |-> "ValueError", msg |-> "min() arg is an empty sequence", arg |-> <<>>]
NoFamiliesError ==
    [type |-> "ValueError", msg |-> "No families have quality, seems sus!", arg |-> <<>>]

(* ---------------------------------------------------------------------- *)
(* Classification                                                          *)
(* ---------------------------------------------------------------------- *)
\* quality_tags_by_family().get(family, tuple()): the tuple's order is the
\* iteration order of the tag set and no caller depends on it, so a set.
quality_tags_for(tags, family) ==
    {t \in tags : t.family = family /\ IsQualityName(t.name)}

\* min(t.weight for t in quality_tags_for(family)); called only on a family
\* with quality tags (min() of an empty sequence raises ValueError).
\* Variant of min_quality_for: the maximum instead of the minimum.
min_quality_for_max(tags, family) ==
    LET ws == {t.weight : t \in quality_tags_for(tags, family)}
    IN  CHOOSE w \in ws : \A v \in ws : w >= v
min_quality_for(tags, family) ==
    LET ws == {t.weight : t \in quality_tags_for(tags, family)}
    IN  CHOOSE w \in ws : \A v \in ws : w <= v

\* Variant of quality_for: the HIGH threshold exclusive (> 70).
quality_for_strict(tags, family) ==
    LET quality_tags == quality_tags_for(tags, family)
    IN  IF quality_tags = {} THEN UNKNOWN
        ELSE LET min_quality == min_quality_for(tags, family)
             IN  IF (\E t \in quality_tags : t.name # "/Quality/Wordspace")
                    /\ min_quality > 70
                 THEN HIGH
                 ELSE IF min_quality <= 30 THEN LOW
                 ELSE MEDIUM
\* Variant of quality_for: no test for a tag other than wordspace.
quality_for_any_name(tags, family) ==
    LET quality_tags == quality_tags_for(tags, family)
    IN  IF quality_tags = {} THEN UNKNOWN
        ELSE LET min_quality == min_quality_for(tags, family)
             IN  IF min_quality >= 70 THEN HIGH
                 ELSE IF min_quality <= 30 THEN LOW
                 ELSE MEDIUM
quality_for(tags, family) ==
    LET quality_tags == quality_tags_for(tags, family)
    IN  IF quality_tags = {} THEN UNKNOWN
        ELSE LET min_quality == min_quality_for(tags, family)
             IN  IF (\E t \in quality_tags : t.name # "/Quality/Wordspace")
                    /\ min_quality >= 70
                 THEN HIGH
                 ELSE IF min_quality <= 30 THEN LOW
                 ELSE MEDIUM

\* The families on which one call of quality_for invokes min_quality_for.
MinCallsOfQualityFor(tags, family) ==
    IF quality_tags_for(tags, family) = {} THEN {} ELSE {family}

(* ---------------------------------------------------------------------- *)
(* Ranking: sorted(..., key=lambda f: (-quality_for(f).value,              *)
(*                                     -min_quality_for(f), f))            *)
(* ---------------------------------------------------------------------- *)
\* The family names of the model, in ascending order of Python's str "<".
FamilyNames == <<"A", "B", "C">>
Families == {FamilyNames[i] : i \in DOMAIN FamilyNames}
StrIndex(s) == CHOOSE i \in DOMAIN FamilyNames : FamilyNames[i] = s
StrLess(a, b) == StrIndex(a) < StrIndex(b)

\* Variants of rank_key: without the tier; with the minimum not negated.
rank_key_drop_tier(tags, f) == <<0, -min_quality_for(tags, f), f>>
rank_key_min_ascending(tags, f) ==
    <<-quality_for(tags, f), min_quality_for(tags, f), f>>
rank_key(tags, f) == <<-quality_for(tags, f), -min_quality_for(tags, f), f>>

\* Python's "<" on the key tuples (int, float, str).
KeyLess(k1, k2) ==
    \/ k1[1] < k2[1]
    \/ k1[1] = k2[1] /\ k1[2] < k2[2]
    \/ k1[1] = k2[1] /\ k1[2] = k2[2] /\ StrLess(k1[3], k2[3])

\* The families quality_for is called on: those of every loaded tag.
AllTagFamilies(tags) == {t.family : t \in tags}

\* The set comprehension main() sorts: UNKNOWN families are dropped.
\* (Variant: without the filter.)
RankedFamilySet_unfiltered(tags) == {t.family : t \in tags}
RankedFamilySet(tags) ==
    {f \in {t.family : t \in tags} : quality_for(tags, f) # UNKNOWN}

\* sorted(S, key=rank_key): the keys of distinct families are distinct.
RECURSIVE Sorted(_, _)
Sorted(tags, S) ==
    IF S = {} THEN <<>>
    ELSE LET first == CHOOSE f \in S :
                        \A g \in S \ {f} : KeyLess(rank_key(tags, f), rank_key(tags, g))
         IN  <<first>> \o Sorted(tags, S \ {first})

\* count_by_quality after the counting loop (a defaultdict(int) read for
\* every member of Quality).
CountByQuality(tags, fams) ==
    [q \in Quality |->
        Cardinality({i \in DOMAIN fams : quality_for(tags, fams[i]) = q})]

(* ---------------------------------------------------------------------- *)
(* main()                                                                  *)
(* ---------------------------------------------------------------------- *)
\* Lines 108-148: the ranking, the empty check, the counts and the loop's
\* initial values.  The markup printed before the loop holds no decision.
MainRank ==
    /\ pc = "main"
    /\ tagsCache.hit
    /\ LET tags == tagsCache.value
           S == RankedFamilySet(tags)
           qcalls == UNION {MinCallsOfQualityFor(tags, t.family) : t \in tags}
           bad == {f \in S : quality_tags_for(tags, f) = {}}
       IN  /\ qualityCache' = [f \in AllTagFamilies(tags) |-> quality_for(tags, f)]
           /\ IF bad # {}
              THEN /\ \E f \in bad : minCalls' = qcalls \cup {f}
                   /\ pc' = "raised"
                   /\ err' = EmptyMinError
                   /\ UNCHANGED <<families, idx, current_group, current_quality,
                                  count_by_quality, out>>
              ELSE /\ minCalls' = qcalls \cup S
                   /\ families' = Sorted(tags, S)
                   /\ IF S = {}
                      THEN /\ pc' = "raised"
                           /\ err' = NoFamiliesError
                           /\ UNCHANGED <<idx, current_group, current_quality,
                                          count_by_quality, out>>
                      ELSE /\ pc' = "report"
                           /\ err' = NoErr
                           /\ count_by_quality' = CountByQuality(tags, families')
                           /\ current_group' = NoGroup
                           /\ current_quality' = 101
                           /\ idx' = 1
                           /\ out' = <<>>
    /\ UNCHANGED <<tagsCache, loadVars>>

\* The lines one iteration of the report loop prints (lines 150-167).
GroupHeading(family_group) == [kind |-> "h2", group |-> family_group]
QualityHeading(family_quality) == [kind |-> "h3", quality |-> family_quality]
FamilyEntry(tags, family) ==
    [kind |-> "div", family |-> family,
     attrs |-> {<<t.name, t.weight>> : t \in quality_tags_for(tags, family)}]

\* One iteration of "for family in families" (lines 149-167).
ReportFamily ==
    /\ pc = "report"
    /\ idx <= Len(families)
    /\ LET tags == tagsCache.value
           family == families[idx]
           family_group == qualityCache[family]
       IN  IF quality_tags_for(tags, family) = {}
           THEN /\ pc' = "raised"
                /\ err' = EmptyMinError
                /\ minCalls' = minCalls \cup {family}
                /\ UNCHANGED <<idx, current_group, current_quality, out>>
           ELSE LET family_quality == min_quality_for(tags, family)
                    h2 == IF family_group # current_group
                          THEN <<GroupHeading(family_group)>> ELSE <<>>
                    h3 == IF family_quality < current_quality
                          THEN <<QualityHeading(family_quality)>> ELSE <<>>
                IN  /\ current_group' = family_group
                    /\ current_quality' =
                          IF family_quality < current_quality
                          THEN family_quality ELSE current_quality
                    /\ out' = out \o h2 \o h3 \o <<FamilyEntry(tags, family)>>
                    /\ minCalls' = minCalls \cup {family}
                    /\ idx' = idx + 1
                    /\ UNCHANGED <<pc, err>>
    /\ UNCHANGED <<tagsCache, qualityCache, families, count_by_quality, loadVars>>

\* The loop is over: </body></html> and main() returns.
MainExit ==
    /\ pc = "report"
    /\ idx > Len(families)
    /\ pc' = "exit"
    /\ UNCHANGED <<tagsCache, err, mainVars, loadVars>>

(* ---------------------------------------------------------------------- *)
(* The file tree under fonts/tags/all                                      *)
(* ---------------------------------------------------------------------- *)
Path(dir, name) == [dir |-> dir, name |-> name]
ExcludedPath == Path("tags/all", "families.csv")
NewPath == Path("tags/all", "families_new.csv")
SubPath == Path("tags/all/sub", "quality.csv")
Paths == {ExcludedPath, NewPath, SubPath}

\* float(s) on the weight texts of the model; any other text raises.
FloatTable ==
    ("5" :> 5) @@ ("30" :> 30) @@ ("50" :> 50) @@ ("50.0" :> 50) @@ ("70" :> 70)
    @@ ("72" :> 72) @@ ("95" :> 95) @@ ("100" :> 100)
IsNumeric(s) == s \in DOMAIN FloatTable
ParseFloat(s) == FloatTable[s]

(* ---------------------------------------------------------------------- *)
(* The inputs of main(): the tag sets tags() can return                    *)
(* ---------------------------------------------------------------------- *)
Weights == {30, 50, 70, 72, 95, 100}
TagUniverse ==
    {Tag(f, None, n, w) :
        f \in Families, n \in {"/Quality/Wordspace", "/Quality/Drawing"}, w \in Weights}
    \cup {Tag(f, None, "/Expressive/Calm", 50) : f \in Families}

RECURSIVE TagSetsUpTo(_)
TagSetsUpTo(n) ==
    IF n = 0 THEN {{}}
    ELSE LET prev == TagSetsUpTo(n - 1)
         IN  prev \cup {s \cup {t} : s \in prev, t \in TagUniverse}

\* A row that tags() parses to tag t, and a file holding a row for each tag.
WeightText(w) == CHOOSE s \in DOMAIN FloatTable : FloatTable[s] = w
RowOfTag(t) == <<t.family, t.name, WeightText(t.weight)>>
RECURSIVE RowsOfTags(_)
RowsOfTags(tags) ==
    IF tags = {} THEN <<>>
    ELSE LET t == CHOOSE x \in tags : TRUE
         IN  <<RowOfTag(t)>> \o RowsOfTags(tags \ {t})

\* The process once main()'s first call of tags() has returned: the cache of
\* tags() holds the set loaded from the file tree.
Init ==
    /\ \E tags \in TagSetsUpTo(MaxTags) :
         /\ tagsCache = Cached(tags)
         /\ acc = tags
         /\ returned = {tags}
         /\ fs = [p \in Paths |-> IF p = NewPath THEN RowsOfTags(tags) ELSE <<>>]
    /\ pc = "main"
    /\ pending = {}
    /\ rows = <<>>
    /\ err = NoErr
    /\ runs = 1
    /\ opened = Paths \ {ExcludedPath}
    /\ minCalls = {}
    /\ qualityCache = <<>>
    /\ families = <<>>
    /\ idx = 0
    /\ current_group = NoGroup
    /\ current_quality = 0
    /\ count_by_quality = [q \in Quality |-> 0]
    /\ out = <<>>

Next == MainRank \/ ReportFamily \/ MainExit

Spec == Init /\ [][Next]_vars

(* ---------------------------------------------------------------------- *)
(* tags(): the loader                                                      *)
(* ---------------------------------------------------------------------- *)
\* The rows a tag file of the model may hold, as csv.reader yields them: a
\* blank line is the empty list.
BlankRow == <<>>
RowUniverse ==
    { BlankRow,
      <<"A", "/Quality/Wordspace", "50">>,
      <<"A", "/Quality/Wordspace", "50.0">>,
      <<"A", "wght@400", "/Quality/Drawing", "70">>,
      <<"OnlyOneField">>,
      <<"Fam", "Name", "notanumber">>,
      <<"Fam", "5">>,
      <<"A", "x", "y", "z", "5">> }

RECURSIVE FsUpTo(_)
FsUpTo(n) ==
    IF n = 0 THEN {[p \in Paths |-> <<>>]}
    ELSE LET prev == FsUpTo(n - 1)
         IN  prev \cup {[f EXCEPT ![p] = Append(@, r)] :
                           f \in prev, p \in Paths, r \in RowUniverse}

\* rglob("*.csv") under tags/all: every file of the model's tree is a .csv.
IsCsv(name) == name \in {"families.csv", "families_new.csv", "quality.csv"}
Discovered(tree) == {p \in DOMAIN tree : IsCsv(p.name)}

\* if tag_file.name == "families.csv": continue
\* (Variant: the other file name, families_new.csv.)
IsExcluded_new(tag_file) == tag_file.name = "families_new.csv"
IsExcluded(tag_file) == tag_file.name = "families.csv"

\* rows = tuple(r for r in rdr if len(r) > 0)
NonBlank(rs) == SelectSeq(rs, LAMBDA r : Len(r) > 0)

\* float(row[-1]) on a text that is no number.
FloatError(text) ==
    [type |-> "ValueError", msg |-> "could not convert string to float",
     arg |-> <<text>>]
\* "Bad line " + row, with row a list: str + list raises TypeError before the
\* ValueError is built.
BadLineError(row) ==
    [type |-> "TypeError", msg |-> "can only concatenate str (not \"list\") to str",
     arg |-> <<>>]

\* Whether the body of "for row in rows" raises on this row, and with what.
RowError(row) ==
    IF ~IsNumeric(row[Len(row)]) THEN FloatError(row[Len(row)])
    ELSE IF Len(row) \in {3, 4} THEN NoErr
    ELSE BadLineError(row)

\* The Tag the loop body builds from a row of three or four fields.
TagOfRow(row) ==
    IF Len(row) = 3
    THEN Tag(row[1], None, row[2], ParseFloat(row[3]))
    ELSE Tag(row[1], row[2], row[3], ParseFloat(row[4]))

\* tags.add(tag) on the set the loader builds.
\* (Variant: the set replaced instead of extended.)
AddTag_replace(tagset, tag) == {tag}
AddTag(tagset, tag) == tagset \cup {tag}

\* tags() is called with nothing cached: the file discovery starts.
TagsCall ==
    /\ pc = "idle"
    /\ ~tagsCache.hit
    /\ pending' = Discovered(fs)
    /\ acc' = {}
    /\ rows' = <<>>
    /\ pc' = "files"
    /\ UNCHANGED <<fs, tagsCache, err, runs, opened, returned, mainVars>>

\* "for tag_file in tag_files": rglob yields the files in no fixed order.
\* families.csv is skipped unopened; any other file is read whole.
NextFile ==
    /\ pc = "files"
    /\ \E tag_file \in pending :
         /\ pending' = pending \ {tag_file}
         /\ IF IsExcluded(tag_file)
            THEN UNCHANGED <<rows, opened, pc>>
            ELSE /\ opened' = opened \cup {tag_file}
                 /\ rows' = NonBlank(fs[tag_file])
                 /\ pc' = IF rows' = <<>> THEN "files" ELSE "rows"
    /\ UNCHANGED <<fs, acc, tagsCache, err, runs, returned, mainVars>>

\* One iteration of "for row in rows".  A raise leaves tags() without a
\* return value, so functools.cache stores nothing.
ParseRow ==
    /\ pc = "rows"
    /\ rows # <<>>
    /\ LET row == Head(rows)
       IN  IF RowError(row) # NoErr
           THEN /\ err' = RowError(row)
                /\ pc' = "raised"
                /\ UNCHANGED <<rows, acc>>
           ELSE /\ acc' = AddTag(acc, TagOfRow(row))
                /\ rows' = Tail(rows)
                /\ pc' = IF rows' = <<>> THEN "files" ELSE "rows"
                /\ UNCHANGED err
    /\ UNCHANGED <<fs, pending, tagsCache, runs, opened, returned, mainVars>>

\* "return tags": the set is returned and cached.
TagsReturn ==
    /\ pc = "files"
    /\ pending = {}
    /\ tagsCache' = Cached(acc)
    /\ returned' = returned \cup {acc}
    /\ pc' = "done"
    /\ UNCHANGED <<fs, pending, rows, acc, err, runs, opened, mainVars>>

\* The script is run again on the same tree (a new process: empty caches).
NewRun ==
    /\ pc \in {"done", "raised"}
    /\ runs < MaxRuns
    /\ runs' = runs + 1
    /\ tagsCache' = NoValue
    /\ err' = NoErr
    /\ acc' = {}
    /\ rows' = <<>>
    /\ pending' = {}
    /\ pc' = "idle"
    /\ UNCHANGED <<fs, opened, returned, mainVars>>

LoadInit ==
    /\ fs \in FsUpTo(MaxTotalRows)
    /\ pc = "idle"
    /\ pending = {}
    /\ rows = <<>>
    /\ acc = {}
    /\ tagsCache = NoValue
    /\ err = NoErr
    /\ runs = 1
    /\ opened = {}
    /\ returned = {}
    /\ minCalls = {}
    /\ qualityCache = <<>>
    /\ families = <<>>
    /\ idx = 0
    /\ current_group = NoGroup
    /\ current_quality = 0
    /\ count_by_quality = [q \in Quality |-> 0]
    /\ out = <<>>

LoadNext == TagsCall \/ NextFile \/ ParseRow \/ TagsReturn \/ NewRun

LoadSpec == LoadInit /\ [][LoadNext]_vars

(* ---------------------------------------------------------------------- *)
(* Properties of the classification and the ranking (under Spec)           *)
(* ---------------------------------------------------------------------- *)
Wordspace == "/Quality/Wordspace"

\* The loaded tags of a family whose name starts with /Quality/.
QTags(f) == {t \in tagsCache.value : t.family = f /\ IsQualityName(t.name)}
QNames(f) == {t.name : t \in QTags(f)}
HasNonWordspace(f) == \E t \in QTags(f) : t.name # Wordspace
\* m is the minimum weight over the quality tags of f.
IsMinWeight(f, m) ==
    /\ \E t \in QTags(f) : t.weight = m
    /\ \A t \in QTags(f) : m <= t.weight
Ranked == pc \in {"report", "exit"}
Classified == DOMAIN qualityCache

C2_WordspaceCeiling ==
    \A f \in Classified :
        (QTags(f) # {} /\ QNames(f) = {Wordspace}) =>
            qualityCache[f] # HIGH /\ qualityCache[f] <= MEDIUM

\* A family whose only quality tag is /Quality/Wordspace at weight 100 has
\* been classified, as MEDIUM.
C2_Witness ==
    \E f \in Classified :
        /\ QNames(f) = {Wordspace}
        /\ \A t \in QTags(f) : t.weight = 100
        /\ qualityCache[f] = MEDIUM

\* C3: a family without quality tags classifies as UNKNOWN, is never in the
\* ranked list nor in the report, and min_quality_for is never invoked on
\* such a family.
C3_UnknownExcluded ==
    /\ \A f \in Classified : QTags(f) = {} => qualityCache[f] = UNKNOWN
    /\ \A i \in DOMAIN families : QTags(families[i]) # {}
    /\ \A i \in DOMAIN out : out[i].kind = "div" => QTags(out[i].family) # {}
    /\ \A f \in minCalls : QTags(f) # {}
    /\ err # EmptyMinError

\* The report is complete for a tag set in which one family has no quality
\* tag and another has one.
C3_Witness ==
    /\ pc = "exit"
    /\ \E f \in Classified : QTags(f) = {} /\ qualityCache[f] = UNKNOWN
    /\ Len(families) >= 1

\* The order of two ranked families by tier and then by name, with the
\* minimum quality weights compared by lessMin in between.
RankedBefore(f, g, lessMin(_, _)) ==
    \/ qualityCache[f] > qualityCache[g]
    \/ /\ qualityCache[f] = qualityCache[g]
       /\ \E m, n \in Weights :
            /\ IsMinWeight(f, m) /\ IsMinWeight(g, n)
            /\ \/ lessMin(m, n)
               \/ m = n /\ StrLess(f, g)

\* C4 as stated: higher tier first, within a tier the lower minimum quality
\* weight first, then the family name ascending.
C4_LowerMinFirst ==
    Ranked =>
        \A i, j \in DOMAIN families : i < j =>
            RankedBefore(families[i], families[j], LAMBDA m, n : m < n)

\* C4, amended: higher tier first, within a tier the higher minimum quality
\* weight first, then the family name ascending.
C4_HigherMinFirst ==
    Ranked =>
        \A i, j \in DOMAIN families : i < j =>
            RankedBefore(families[i], families[j], LAMBDA m, n : m > n)

\* Three families are ranked: two of one tier with different minimum quality
\* weights, and two of one tier with the same minimum quality weight.
C4_Witness ==
    /\ Ranked
    /\ Len(families) = 3
    /\ \E i, j \in DOMAIN families, m, n \in Weights :
         /\ qualityCache[families[i]] = qualityCache[families[j]]
         /\ IsMinWeight(families[i], m) /\ IsMinWeight(families[j], n) /\ m # n
    /\ \E i, j \in DOMAIN families, m \in Weights :
         /\ i # j
         /\ qualityCache[families[i]] = qualityCache[families[j]]
         /\ IsMinWeight(families[i], m) /\ IsMinWeight(families[j], m)

\* Families a, b, c are exactly the ranked ones, a HIGH with minimum 95, b
\* HIGH with minimum 72 and c MEDIUM with minimum 50.
C5_Case(a, b, c) ==
    /\ Ranked
    /\ {families[i] : i \in DOMAIN families} = {a, b, c}
    /\ Cardinality({a, b, c}) = 3
    /\ qualityCache[a] = HIGH /\ IsMinWeight(a, 95)
    /\ qualityCache[b] = HIGH /\ IsMinWeight(b, 72)
    /\ qualityCache[c] = MEDIUM /\ IsMinWeight(c, 50)

\* C5: families A (HIGH, minimum 95), B (HIGH, minimum 72) and C (MEDIUM,
\* minimum 50) are ranked A, then B, then C.
C5_ExampleOrder ==
    \A a, b, c \in Families : C5_Case(a, b, c) => families = <<a, b, c>>

\* The example of C5 has been ranked and reported, with the names A, B, C.
C5_Witness == C5_Case("A", "B", "C") /\ pc = "exit"

\* C9: of two families with the same set of quality tag names, one of them
\* not /Quality/Wordspace, the one with the lower or equal minimum quality
\* weight has the lower or equal tier.
C9_Monotone ==
    \A f, g \in Classified :
        (/\ QTags(f) # {}
         /\ QNames(f) = QNames(g)
         /\ HasNonWordspace(f)
         /\ \E m, n \in Weights : IsMinWeight(f, m) /\ IsMinWeight(g, n) /\ m <= n)
        => qualityCache[f] <= qualityCache[g]

\* Three classified families with the same quality tag names, one of them
\* not /Quality/Wordspace, are LOW, MEDIUM and HIGH.
C9_Witness ==
    \E f, g, h \in Classified :
        /\ QNames(f) = QNames(g) /\ QNames(g) = QNames(h) /\ HasNonWordspace(f)
        /\ qualityCache[f] = LOW /\ qualityCache[g] = MEDIUM
        /\ qualityCache[h] = HIGH

\* The quality of the last "==min quality X==" heading printed before line i.
RECURSIVE LastHeading(_)
LastHeading(i) ==
    IF i = 0 THEN NoGroup
    ELSE IF out[i].kind = "h3" THEN out[i].quality
    ELSE LastHeading(i - 1)

OtherFiles == {p \in Paths : p.name # "families.csv"}
RowPlaces(files) ==
    UNION {{<<p, i>> : i \in {k \in DOMAIN fs[p] : Len(fs[p][k]) > 0}} : p \in files}
RowAt(pl) == fs[pl[1]][pl[2]]
\* A row with a field count other than 3 or 4, or a last field that is no
\* number.
Malformed(row) == Len(row) \notin {3, 4} \/ ~IsNumeric(row[Len(row)])
\* The record of a well-formed row: (family, name, weight) or (family,
\* location, name, weight).
RecordOf(row) ==
    [family |-> row[1],
     location |-> IF Len(row) = 4 THEN row[2] ELSE None,
     name |-> row[Len(row) - 1],
     weight |-> FloatTable[row[Len(row)]]]
RecordsOf(files) ==
    {RecordOf(RowAt(pl)) : pl \in {q \in RowPlaces(files) : ~Malformed(RowAt(q))}}
LoadOver == pc \in {"done", "raised"}

\* C6: when a non-blank row of a file other than families.csv is malformed,
\* the load fails with a MalformedRow error (the ValueError "Bad line") that
\* names the offending row, and nothing is returned or cached.
C6_MalformedRowRejected ==
    (LoadOver /\ \E pl \in RowPlaces(OtherFiles) : Malformed(RowAt(pl))) =>
        /\ pc = "raised"
        /\ err.type = "ValueError"
        /\ \/ err.arg = Head(rows)
           \/ \E i \in DOMAIN Head(rows) : err.arg = <<Head(rows)[i]>>
        /\ Malformed(Head(rows))
        /\ ~tagsCache.hit
        /\ returned = {}

\* C7: every load returns the set of the distinct records of the well-formed
\* rows, whatever the order in which the files were discovered and in every
\* run; identical rows within and across files are one Tag.
C7_SetSemantics ==
    /\ \A r \in returned : r = RecordsOf(OtherFiles)
    /\ Cardinality(returned) <= 1
    /\ pc = "done" => tagsCache = Cached(RecordsOf(OtherFiles))

\* The second run has returned, on a tree whose two loaded files both hold
\* rows and hold more well-formed rows than there are distinct records.
C7_Witness ==
    /\ pc = "done" /\ runs = 2
    /\ fs[NewPath] # <<>> /\ fs[SubPath] # <<>>
    /\ Cardinality(tagsCache.value) = 2
    /\ Cardinality(RowPlaces(OtherFiles)) = 3

\* C8: families.csv is never read: every loaded tag is the record of a row
\* of another file, the load's outcome is the one the other files decide,
\* and a row found only in families.csv is not in the set.
C8_FamiliesCsvExcluded ==
    /\ \A p \in opened : p.name # "families.csv"
    /\ acc \subseteq RecordsOf(OtherFiles)
    /\ \A r \in returned : r = RecordsOf(OtherFiles)
    /\ pc = "raised" => \E pl \in RowPlaces(OtherFiles) :
                            Malformed(RowAt(pl)) /\ RowAt(pl) = Head(rows)
    /\ pc = "done" => \A pl \in RowPlaces(OtherFiles) : ~Malformed(RowAt(pl))

\* A load has returned a non-empty set although families.csv holds a
\* malformed row, and a well-formed row whose record is not in the set.
C8_Witness ==
    /\ pc = "done"
    /\ tagsCache.value # {}
    /\ \E pl \in RowPlaces({ExcludedPath}) : Malformed(RowAt(pl))
    /\ \E pl \in RowPlaces({ExcludedPath}) :
         ~Malformed(RowAt(pl)) /\ RecordOf(RowAt(pl)) \notin tagsCache.value

====
